---- MODULE Spec2Model ----
(***************************************************************************)
(* Stock Sentiment Tracker: the page (Home), its three components          *)
(* (StockSelector, Dashboard, AlertPanel), the /api/dashboard requests     *)
(* they keep in flight, and the Alert Evaluator that answers them.         *)
(*                                                                         *)
(* The frontend is translated from the TypeScript sources.  The evaluator  *)
(* behind /api/dashboard, its sentiment scorer and its score history are   *)
(* not among the sources; they are modelled from sections 4.1, 4.4, 6 and  *)
(* 9 of the design document.                                               *)
(*                                                                         *)
(* Numbers on the [0,1] scale are kept in tenths (0.3 is 3), volume ratios *)
(* in tenths (2x is 20), price changes in whole percent.                   *)
(***************************************************************************)
EXTENDS Integers, Sequences, FiniteSets, TLC

\* ------------------------------------------------------------------ bounds

\* /api/dashboard requests issued in one behaviour.
MaxRequests == 4

\* /api/dashboard requests issued in one behaviour that only edits the
\* selection: the first render and four edits.
MaxSelectionRequests == 10

\* Presses of the Refresh button in one behaviour.
MaxRefresh == 1

\* Changes of the upstream price and news data in one behaviour.
MaxMarketMoves == 2

\* The largest price handed to the display, in thousandths.
MaxAmount == 30

\* The top of the [0,1] scale of sentiment value and confidence, in tenths.
MaxTenths == 10

\* Articles in the window handed to the Sentiment Scorer.
MaxArticles == 2

\* Capacity of the sentiment history of one symbol.
HistoryCapacity == 3

\* Cycles that score one symbol in one behaviour.
MaxCycles == 6

\* ------------------------------------------------------------ vocabulary

\* The symbols the model follows: one that is selected when the page opens
\* and one that is not.  Every other symbol is left out of every array.
Symbols == {"AAPL", "INFY.NS"}

Kinds == {"sentiment", "trend", "volume", "correlation"}

Severities == {"high", "medium", "low"}

Filters == {"all", "high", "medium", "low"}

\* ----------------------------------------------------------- sequences

Range(s) == {s[i] : i \in DOMAIN s}

\* Array.prototype.filter with the predicate "member of keep".
RECURSIVE FilterSeq(_, _)
FilterSeq(s, keep) ==
    IF s = <<>> THEN <<>>
    ELSE IF Head(s) \in keep
         THEN <<Head(s)>> \o FilterSeq(Tail(s), keep)
         ELSE FilterSeq(Tail(s), keep)

\* useState initial value of selectedStocks in Home.
DefaultSelection == <<"RELIANCE.NS", "TCS.NS", "AAPL", "GOOGL">>

InitialSelection == FilterSeq(DefaultSelection, Symbols)

\* ------------------------------------------------- Alert Evaluator (4.4)

\* What one cycle knows about one symbol.  avail = FALSE is a symbol whose
\* upstream fetch failed: it is skipped for the cycle.
Quiet ==
    [avail |-> TRUE, value |-> 5, confidence |-> 6, volRatio |-> 10,
     priceChange |-> 0, trend |-> "stable"]

Euphoric ==
    [avail |-> TRUE, value |-> 9, confidence |-> 6, volRatio |-> 35,
     priceChange |-> 3, trend |-> "rising"]

Diverging ==
    [avail |-> TRUE, value |-> 8, confidence |-> 6, volRatio |-> 20,
     priceChange |-> -3, trend |-> "rising"]

Unavailable ==
    [avail |-> FALSE, value |-> 5, confidence |-> 0, volRatio |-> 10,
     priceChange |-> 0, trend |-> "stable"]

SignalMenu == {Quiet, Euphoric, Diverging, Unavailable}

\* A sentiment rule that asks for more than the confidence threshold.
SentimentFiresAbove(i) ==
    i.confidence > 3 /\ (i.value <= 3 \/ i.value >= 8)

SentimentFires(i) ==
    i.confidence >= 3 /\ (i.value <= 3 \/ i.value >= 8)

SentimentSeverity(i) ==
    IF i.value <= 2 \/ i.value >= 9 THEN "high" ELSE "medium"

TrendDiverges(i) ==
    \/ i.trend = "falling" /\ i.priceChange > 0
    \/ i.trend = "rising" /\ i.priceChange < 0

TrendConfirms(i) ==
    \/ i.trend = "rising" /\ i.priceChange >= 2
    \/ i.trend = "falling" /\ i.priceChange <= -2

TrendFires(i) == TrendDiverges(i) \/ TrendConfirms(i)

TrendSeverity(i) == IF TrendDiverges(i) THEN "medium" ELSE "low"

VolumeFires(i) == i.volRatio >= 20

VolumeSeverity(i) == IF i.volRatio >= 30 THEN "high" ELSE "medium"

CorrelationFires(i) ==
    /\ i.confidence >= 5
    /\ \/ i.value > 5 /\ i.priceChange <= -2
       \/ i.value < 5 /\ i.priceChange >= 2

\* Step 1: the candidates of one symbol, one per firing rule.
Candidates(sym, i) ==
    (IF SentimentFires(i)
     THEN <<[symbol |-> sym, kind |-> "sentiment",
             severity |-> SentimentSeverity(i), currentValue |-> i.value]>>
     ELSE <<>>)
    \o
    (IF TrendFires(i)
     THEN <<[symbol |-> sym, kind |-> "trend",
             severity |-> TrendSeverity(i), currentValue |-> i.priceChange]>>
     ELSE <<>>)
    \o
    (IF VolumeFires(i)
     THEN <<[symbol |-> sym, kind |-> "volume",
             severity |-> VolumeSeverity(i), currentValue |-> i.volRatio]>>
     ELSE <<>>)
    \o
    (IF CorrelationFires(i)
     THEN <<[symbol |-> sym, kind |-> "correlation",
             severity |-> "high", currentValue |-> i.priceChange]>>
     ELSE <<>>)

\* The existing active alerts of the candidate's (symbol, kind).
ActiveFor(tbl, sym, kind) ==
    {a \in tbl : a.symbol = sym /\ a.kind = kind /\ a.isActive}

\* Step 2 without the lookup: every candidate becomes a new alert.
ApplyCandidateAlwaysNew(st, c, t) ==
    [tbl |-> st.tbl \cup
                {[id |-> st.nid, symbol |-> c.symbol, kind |-> c.kind,
                  severity |-> c.severity, currentValue |-> c.currentValue,
                  isActive |-> TRUE, triggeredAt |-> t]},
     nid |-> st.nid + 1]

\* Step 2: update in place, or create with a fresh id.  st = [tbl, nid].
ApplyCandidate(st, c, t) ==
    IF ActiveFor(st.tbl, c.symbol, c.kind) # {}
    THEN [st EXCEPT !.tbl =
            {IF a \in ActiveFor(st.tbl, c.symbol, c.kind)
             THEN [a EXCEPT !.severity = c.severity,
                            !.currentValue = c.currentValue,
                            !.triggeredAt = t]
             ELSE a : a \in st.tbl}]
    ELSE [tbl |-> st.tbl \cup
                    {[id |-> st.nid, symbol |-> c.symbol, kind |-> c.kind,
                      severity |-> c.severity, currentValue |-> c.currentValue,
                      isActive |-> TRUE, triggeredAt |-> t]},
          nid |-> st.nid + 1]

RECURSIVE ApplyAll(_, _, _)
ApplyAll(st, cands, t) ==
    IF cands = <<>> THEN st
    ELSE ApplyAll(ApplyCandidate(st, Head(cands), t), Tail(cands), t)

\* Step 3: retire the active alerts of sym that no candidate re-fired.
Retire(tbl, sym, cands) ==
    {IF /\ a.isActive
        /\ a.symbol = sym
        /\ \A k \in DOMAIN cands : cands[k].kind # a.kind
     THEN [a EXCEPT !.isActive = FALSE]
     ELSE a : a \in tbl}

\* Steps 1-3 for one symbol; a symbol without data is skipped.
EvaluateSymbol(st, sym, i, t) ==
    IF ~i.avail THEN st
    ELSE LET cands == Candidates(sym, i)
             applied == ApplyAll(st, cands, t)
         IN  [applied EXCEPT !.tbl = Retire(applied.tbl, sym, cands)]

\* One cycle over the tracked symbols, in the order of the request.
RECURSIVE EvaluateCycle(_, _, _, _)
EvaluateCycle(st, syms, signals, t) ==
    IF syms = <<>> THEN st
    ELSE EvaluateCycle(EvaluateSymbol(st, Head(syms), signals[Head(syms)], t),
                       Tail(syms), signals, t)

SeverityRank(sev) ==
    CASE sev = "high" -> 0
      [] sev = "medium" -> 1
      [] OTHER -> 2

\* a is listed before b: severity first, then triggeredAt descending
\* (equal keys in id order).
ListedBefore(a, b) ==
    \/ SeverityRank(a.severity) < SeverityRank(b.severity)
    \/ /\ SeverityRank(a.severity) = SeverityRank(b.severity)
       /\ \/ a.triggeredAt > b.triggeredAt
          \/ a.triggeredAt = b.triggeredAt /\ a.id < b.id

RECURSIVE SortAlerts(_)
SortAlerts(S) ==
    IF S = {} THEN <<>>
    ELSE LET first == CHOOSE a \in S : \A b \in S \ {a} : ListedBefore(a, b)
         IN  <<first>> \o SortAlerts(S \ {first})

\* Step 4: the active alerts, ordered.
ActiveOutput(tbl) == SortAlerts({a \in tbl : a.isActive})

\* The price changes of the inputs a cycle is run on: a fall, none, a rise.
PriceChanges == {-3, 0, 3}

\* ------------------------------------------------------------------ state

VARIABLES
    mounted,         \* the first render's effects have run
    selectedStocks,  \* Home: the selection, an array of symbols
    isLoading,       \* Home: set by handleRefreshData
    lastUpdated,     \* Home: the time shown as "Last updated"
    refreshTimer,    \* Home: the setTimeout of handleRefreshData is pending
    marketStatus,    \* Home: "null" until /api/market-status answered
    popularStocks,   \* StockSelector: the list to pick from, Null until set
    selectorLoading, \* StockSelector: isLoading
    popularPending,  \* the /api/popular-stocks request is in flight
    statusPending,   \* /api/market-status requests in flight
    stockData,       \* Dashboard: symbol -> data (the cycle that produced it)
    sentimentData,   \* Dashboard: symbol -> data
    dashLoading,     \* Dashboard: loading
    dashRequests,    \* Dashboard's /api/dashboard requests in flight
    alerts,          \* AlertPanel: the alert list
    alertsLoading,   \* AlertPanel: loading
    filter,          \* AlertPanel: the severity filter
    alertRequests,   \* AlertPanel's /api/dashboard requests in flight
    nextRequest,     \* number of the next /api/dashboard request
    market,          \* upstream: what price and news say about each symbol
    marketMoves,     \* upstream: changes of market so far
    alertTable,      \* Alert Evaluator: every alert record, active or retired
    nextAlertId,     \* Alert Evaluator: the next fresh id
    now,             \* Alert Evaluator: the clock, one tick per cycle
    amount,          \* Dashboard: a price handed to the display, in thousandths
    priceSymbol,     \* Dashboard: the symbol the price belongs to
    cardPrice,       \* Dashboard: rupees on the price card, in hundredths
    chartPrice,      \* Dashboard: rupees plotted on the chart, in thousandths
    overallSentiment, \* Dashboard: an overall_sentiment handed to the display
    badge,           \* Dashboard: the colour class and label rendered for it
    ruleInput,       \* Alert Evaluator: the inputs of one symbol in one cycle
    ruleOutput,      \* Alert Evaluator: the output of that cycle
    articles,        \* Sentiment Scorer: the articles of one symbol's window
    sentimentScore,  \* Sentiment Scorer: the score of those articles
    history,         \* Alert Evaluator: one symbol's sentiment history
    cycles,          \* Alert Evaluator: the cycles that history has seen
    requestLimit     \* the /api/dashboard requests one behaviour may issue

homeVars == <<selectedStocks, isLoading, lastUpdated, refreshTimer>>

statusVars == <<marketStatus, statusPending>>

dashVars == <<stockData, sentimentData, dashLoading, dashRequests>>

panelVars == <<alerts, alertsLoading, filter, alertRequests>>

evalVars == <<market, marketMoves, alertTable, nextAlertId, now>>

selectorVars == <<popularStocks, selectorLoading, popularPending>>

pageVars == <<mounted, homeVars, statusVars, selectorVars, dashVars, panelVars,
              nextRequest, evalVars>>

\* Inputs and results of the functions checked on their own.
displayVars == <<amount, priceSymbol, cardPrice, chartPrice, overallSentiment, badge>>

ruleVars == <<ruleInput, ruleOutput>>

scorerVars == <<articles, sentimentScore>>

historyVars == <<history, cycles>>

sideVars == <<displayVars, ruleVars, scorerVars, historyVars, requestLimit>>

vars == <<pageVars, sideVars>>

\* An element that has not been rendered; a rendered one is <<value>>.
NotRendered == <<>>

\* useState<PopularStocks | null>(null); a list that is set is <<list>>.
Null == <<>>

\* Record<string, T> with no keys.
EmptyRecord == [s \in {} |-> 0]

\* /api/market-status requests the model keeps in flight at once.
MaxStatusPending == 1

PageInit ==
    /\ mounted = FALSE
    /\ selectedStocks = InitialSelection
    /\ isLoading = FALSE
    /\ lastUpdated = 0
    /\ refreshTimer = FALSE
    /\ marketStatus = "null"
    /\ statusPending = 0
    /\ popularStocks = Null
    /\ selectorLoading = TRUE
    /\ popularPending = FALSE
    /\ stockData = EmptyRecord
    /\ sentimentData = EmptyRecord
    /\ dashLoading = TRUE
    /\ dashRequests = {}
    /\ alerts = <<>>
    /\ alertsLoading = TRUE
    /\ filter = "all"
    /\ alertRequests = {}
    /\ nextRequest = 1
    /\ market = [s \in Symbols |-> Quiet]
    /\ marketMoves = 0
    /\ alertTable = {}
    /\ nextAlertId = 1
    /\ now = 0

\* Nothing rendered: no price has been handed to the display.
DisplayIdle ==
    /\ amount = 0
    /\ priceSymbol = "AAPL"
    /\ cardPrice = NotRendered
    /\ chartPrice = NotRendered
    /\ overallSentiment = 5
    /\ badge = NotRendered

\* No cycle on inputs of its own.
RuleIdle ==
    /\ ruleInput = Quiet
    /\ ruleOutput = NotRendered

\* No window handed to the scorer.
ScorerIdle ==
    /\ articles = <<>>
    /\ sentimentScore = NotRendered

\* The history of a symbol no cycle has scored.
HistoryIdle ==
    /\ history = <<>>
    /\ cycles = 0

\* The functions checked on their own are at rest.
SideIdle ==
    /\ DisplayIdle
    /\ RuleIdle
    /\ ScorerIdle
    /\ HistoryIdle

Init ==
    /\ PageInit
    /\ SideIdle
    /\ requestLimit = MaxRequests

\* ------------------------------------------------------- /api/dashboard

\* A request in flight: the POST body {symbols, lookback_days: 7}.
NewRequest(id, syms) == [id |-> id, symbols |-> syms]

\* Dashboard.fetchDashboardData up to its await: setLoading(true), fetch.
fetchDashboardData(syms, id) ==
    /\ dashLoading' = TRUE
    /\ dashRequests' = dashRequests \cup {NewRequest(id, syms)}
    /\ UNCHANGED <<stockData, sentimentData>>

\* Dashboard's useEffect on [selectedStocks].
DashboardEffect(syms, id) ==
    IF Len(syms) > 0
    THEN fetchDashboardData(syms, id)
    ELSE UNCHANGED dashVars

\* AlertPanel.fetchAlerts up to its await: setLoading(true), fetch.
fetchAlerts(syms, id) ==
    /\ alertsLoading' = TRUE
    /\ alertRequests' = alertRequests \cup {NewRequest(id, syms)}
    /\ UNCHANGED <<alerts, filter>>

\* AlertPanel's useEffect on [selectedStocks].
AlertPanelEffect(syms, id) ==
    IF Len(syms) > 0
    THEN fetchAlerts(syms, id)
    ELSE /\ alerts' = <<>>
         /\ alertsLoading' = FALSE
         /\ UNCHANGED <<filter, alertRequests>>

\* The effects that a render with a new selectedStocks runs, in child order.
SelectionEffects(syms) ==
    /\ Len(syms) > 0 => nextRequest + 1 <= requestLimit
    /\ DashboardEffect(syms, nextRequest)
    /\ AlertPanelEffect(syms, nextRequest + 1)
    /\ nextRequest' = IF Len(syms) > 0 THEN nextRequest + 2 ELSE nextRequest

\* Home.fetchMarketStatus up to its await.
fetchMarketStatus ==
    /\ statusPending < MaxStatusPending
    /\ statusPending' = statusPending + 1
    /\ UNCHANGED marketStatus

\* StockSelector.fetchPopularStocks up to its await.
fetchPopularStocks ==
    /\ popularPending' = TRUE
    /\ UNCHANGED <<popularStocks, selectorLoading>>

\* The first render: every useEffect runs once.
Mount ==
    /\ ~mounted
    /\ mounted' = TRUE
    /\ fetchMarketStatus
    /\ fetchPopularStocks
    /\ SelectionEffects(selectedStocks)
    /\ UNCHANGED <<homeVars, evalVars>>
    /\ UNCHANGED sideVars

\* -------------------------------------------------------- StockSelector

\* The list the server sends.
ServerStocks ==
    [indian_stocks |-> <<"RELIANCE.NS", "TCS.NS", "INFY.NS">>,
     us_stocks |-> <<"AAPL", "GOOGL">>]

\* The list built into fetchPopularStocks.
FallbackStocks ==
    [indian_stocks |-> <<"RELIANCE.NS", "TCS.NS", "INFY.NS", "ITC.NS", "LT.NS">>,
     us_stocks |-> <<"AAPL", "GOOGL", "MSFT", "AMZN", "TSLA">>]

\* fetchPopularStocks after its await: the response, the catch, the finally.
PopularStocksResponse(outcome) ==
    /\ popularPending
    /\ popularPending' = FALSE
    /\ popularStocks' = CASE outcome = "ok" -> <<ServerStocks>>
                           [] outcome = "throw" -> <<FallbackStocks>>
                           [] OTHER -> popularStocks
    /\ selectorLoading' = FALSE
    /\ UNCHANGED <<mounted, homeVars, statusVars, dashVars, panelVars,
                   nextRequest, evalVars, sideVars>>

\* selectedStocks.filter(s => s !== symbol)
Without(list, sym) == FilterSeq(list, Range(list) \ {sym})

\* The symbols the selector offers.
ListedSymbols ==
    Range(FallbackStocks.indian_stocks) \cup Range(FallbackStocks.us_stocks)

\* An add that does not look at the selection.
handleAddStockUnchecked(sym) ==
    /\ mounted
    /\ selectedStocks' = Append(selectedStocks, sym)
    /\ SelectionEffects(selectedStocks')
    /\ UNCHANGED <<mounted, isLoading, lastUpdated, refreshTimer, statusVars, evalVars>>
    /\ UNCHANGED <<selectorVars, sideVars>>

handleAddStock(sym) ==
    /\ mounted
    /\ sym \notin Range(selectedStocks)
    /\ selectedStocks' = Append(selectedStocks, sym)
    /\ SelectionEffects(selectedStocks')
    /\ UNCHANGED <<mounted, isLoading, lastUpdated, refreshTimer, statusVars, evalVars>>
    /\ UNCHANGED <<selectorVars, sideVars>>

handleRemoveStock(sym) ==
    /\ mounted
    /\ sym \in Range(selectedStocks)
    /\ selectedStocks' = Without(selectedStocks, sym)
    /\ SelectionEffects(selectedStocks')
    /\ UNCHANGED <<mounted, isLoading, lastUpdated, refreshTimer, statusVars, evalVars>>
    /\ UNCHANGED <<selectorVars, sideVars>>

\* ------------------------------------------------------------------ Home

\* The Refresh button (disabled while isLoading).
handleRefreshData ==
    /\ mounted
    /\ ~isLoading
    /\ lastUpdated < MaxRefresh
    /\ isLoading' = TRUE
    /\ lastUpdated' = lastUpdated + 1
    /\ refreshTimer' = TRUE
    /\ UNCHANGED <<mounted, selectedStocks, statusVars, dashVars, panelVars,
                   nextRequest, evalVars>>
    /\ UNCHANGED <<selectorVars, sideVars>>

\* setTimeout(() => setIsLoading(false), 2000) fires.
RefreshTimeout ==
    /\ refreshTimer
    /\ isLoading' = FALSE
    /\ refreshTimer' = FALSE
    /\ UNCHANGED <<mounted, selectedStocks, lastUpdated, statusVars, dashVars,
                   panelVars, nextRequest, evalVars>>
    /\ UNCHANGED <<selectorVars, sideVars>>

\* setInterval(fetchMarketStatus, 60000) fires.
MarketStatusTick ==
    /\ mounted
    /\ fetchMarketStatus
    /\ UNCHANGED <<mounted, homeVars, dashVars, panelVars, nextRequest, evalVars>>
    /\ UNCHANGED <<selectorVars, sideVars>>

\* fetchMarketStatus after its await: setMarketStatus(data) when response.ok.
MarketStatusResponse(ok) ==
    /\ statusPending > 0
    /\ statusPending' = statusPending - 1
    /\ marketStatus' = IF ok THEN "loaded" ELSE marketStatus
    /\ UNCHANGED <<mounted, homeVars, dashVars, panelVars, nextRequest, evalVars>>
    /\ UNCHANGED <<selectorVars, sideVars>>

\* --------------------------------------------------------------- backend

\* Price or news of one symbol changes upstream.
MarketMove(sym, signal) ==
    /\ marketMoves < MaxMarketMoves
    /\ signal # market[sym]
    /\ market' = [market EXCEPT ![sym] = signal]
    /\ marketMoves' = marketMoves + 1
    /\ UNCHANGED <<mounted, homeVars, statusVars, dashVars, panelVars, nextRequest,
                   alertTable, nextAlertId, now>>
    /\ UNCHANGED <<selectorVars, sideVars>>

\* The symbols of the request whose data the cycle could fetch.
Fetched(r) == {s \in Range(r.symbols) : market[s].avail}

\* The alert table and id counter after one cycle for r that ends at time t.
CycleResult(r, t) ==
    EvaluateCycle([tbl |-> alertTable, nid |-> nextAlertId], r.symbols, market, t)

\* The body of the 200 response to r of the cycle that ends at time t.
OkResponse(r, t) ==
    [stocks |-> [s \in Fetched(r) |-> t],
     sentiment |-> [s \in Fetched(r) |-> t],
     alerts |-> ActiveOutput(CycleResult(r, t).tbl)]

\* /api/dashboard serves one evaluation cycle for the symbols of r.  The
\* request is in flight from fetch() to the handling of its response; the
\* cycle is placed at the response.
RunCycle(r) ==
    /\ now' = now + 1
    /\ alertTable' = CycleResult(r, now + 1).tbl
    /\ nextAlertId' = CycleResult(r, now + 1).nid
    /\ UNCHANGED <<market, marketMoves>>

\* How a request ends: a 200 response, a response with response.ok false,
\* or a rejected fetch.
Outcomes == {"ok", "not_ok", "throw"}

\* ------------------------------------------------------------- Dashboard

\* fetchDashboardData after its await: the response, the catch, the finally.
DashboardResponse(r, outcome) ==
    /\ r \in dashRequests
    /\ dashRequests' = dashRequests \ {r}
    /\ IF outcome = "ok"
       THEN /\ RunCycle(r)
            /\ stockData' = OkResponse(r, now + 1).stocks
            /\ sentimentData' = OkResponse(r, now + 1).sentiment
       ELSE UNCHANGED <<evalVars, stockData, sentimentData>>
    /\ dashLoading' = FALSE
    /\ UNCHANGED <<mounted, homeVars, statusVars, panelVars, nextRequest>>
    /\ UNCHANGED <<selectorVars, sideVars>>

\* What the component returns: the skeleton while loading, else the tabs.
DashboardView == IF dashLoading \/ isLoading THEN "skeleton" ELSE "tabs"

\* An Overview tab that shows data only once every selected symbol has some.
OverviewCardAllOrNothing(sym) ==
    IF \E s \in Range(selectedStocks) : s \notin DOMAIN stockData
    THEN "placeholder" ELSE "card"

\* Overview tab, the entry of one selected symbol.
OverviewCard(sym) ==
    IF sym \notin DOMAIN stockData THEN "placeholder" ELSE "card"

\* Sentiment tab, the entry of one selected symbol.
SentimentCard(sym) ==
    IF sym \notin DOMAIN sentimentData THEN "placeholder" ELSE "card"

\* ------------------------------------------------------------ AlertPanel

\* A fetchAlerts that adds the fetched alerts to the list it holds.
AlertsResponseMerging(r, outcome) ==
    /\ r \in alertRequests
    /\ alertRequests' = alertRequests \ {r}
    /\ IF outcome = "ok"
       THEN /\ RunCycle(r)
            /\ alerts' = alerts \o OkResponse(r, now + 1).alerts
       ELSE UNCHANGED <<evalVars, alerts>>
    /\ alertsLoading' = FALSE
    /\ UNCHANGED <<mounted, homeVars, statusVars, dashVars, filter, nextRequest>>
    /\ UNCHANGED <<selectorVars, sideVars>>

\* fetchAlerts after its await: the response, the catch, the finally.
AlertsResponse(r, outcome) ==
    /\ r \in alertRequests
    /\ alertRequests' = alertRequests \ {r}
    /\ IF outcome = "ok"
       THEN /\ RunCycle(r)
            /\ alerts' = OkResponse(r, now + 1).alerts
       ELSE UNCHANGED <<evalVars, alerts>>
    /\ alertsLoading' = FALSE
    /\ UNCHANGED <<mounted, homeVars, statusVars, dashVars, filter, nextRequest>>
    /\ UNCHANGED <<selectorVars, sideVars>>

RECURSIVE Reverse(_)
Reverse(s) == IF s = <<>> THEN <<>> ELSE Append(Reverse(Tail(s)), Head(s))

\* A severity filter that lists its alerts oldest first.
FilteredByReversed(f) ==
    IF f = "all" THEN alerts
    ELSE Reverse(FilterSeq(alerts, {a \in Range(alerts) : a.severity = f}))

\* The list under filter f.
FilteredBy(f) ==
    IF f = "all" THEN alerts
    ELSE FilterSeq(alerts, {a \in Range(alerts) : a.severity = f})

filteredAlerts == FilteredBy(filter)

\* alerts.filter(alert => alert.severity === sev).length
CountOf(sev) ==
    Len(FilterSeq(alerts, {a \in Range(alerts) : a.severity = sev}))

\* Counts in which low stands for everything that is not high.
alertCountsLowAsRest ==
    [high |-> CountOf("high"),
     medium |-> CountOf("medium"),
     low |-> Len(FilterSeq(alerts, {a \in Range(alerts) : a.severity # "high"})),
     total |-> Len(alerts)]

alertCounts ==
    [high |-> CountOf("high"),
     medium |-> CountOf("medium"),
     low |-> CountOf("low"),
     total |-> Len(alerts)]

\* The number on the tab of filter f.
TabCount(f) == IF f = "all" THEN alertCounts.total ELSE alertCounts[f]

\* A filter tab that keeps only the alerts it shows.
SetFilterDropping(f) ==
    /\ mounted
    /\ ~alertsLoading
    /\ filter' = f
    /\ alerts' = FilteredBy(f)
    /\ UNCHANGED <<mounted, homeVars, statusVars, dashVars, alertsLoading,
                   alertRequests, nextRequest, evalVars>>
    /\ UNCHANGED <<selectorVars, sideVars>>

\* onClick of a filter tab (the tabs are not rendered while loading).
SetFilter(f) ==
    /\ mounted
    /\ ~alertsLoading
    /\ filter' = f
    /\ UNCHANGED <<mounted, homeVars, statusVars, dashVars, alerts, alertsLoading,
                   alertRequests, nextRequest, evalVars>>
    /\ UNCHANGED <<selectorVars, sideVars>>

\* ------------------------------------------------- Sentiment Scorer (4.1)

\* The polarities a model gives an article, in tenths of [-1,1].
Polarities == {-10, -6, 2, 10}

\* An article as its two model outputs.
ScoredArticles == [general : Polarities, social : Polarities]

\* Mean of the two models, rescaled from [-1,1] to [0,1]; in tenths.
FusedPolarity(a) == (a.general + a.social + 20) \div 4

RECURSIVE SumFused(_)
SumFused(as) ==
    IF as = <<>> THEN 0 ELSE FusedPolarity(Head(as)) + SumFused(Tail(as))

\* Disagreement of the two models on one article, in tenths of [0,1].
Disagreement(a) ==
    (IF a.general >= a.social THEN a.general - a.social
                              ELSE a.social - a.general) \div 2

RECURSIVE SumDisagreement(_)
SumDisagreement(as) ==
    IF as = <<>> THEN 0 ELSE Disagreement(Head(as)) + SumDisagreement(Tail(as))

\* min(1, articleCount / 20), lowered by the mean disagreement.
Confidence(as) ==
    LET evidence == IF Len(as) >= 20 THEN 10 ELSE Len(as) \div 2
        doubt == SumDisagreement(as) \div Len(as)
    IN  IF evidence > doubt THEN evidence - doubt ELSE 0

\* A scorer that takes the mean of no articles to be 0.
scoreEmptyAsZero(as) ==
    [value |-> IF as = <<>> THEN 0 ELSE SumFused(as) \div Len(as),
     confidence |-> IF as = <<>> THEN 0 ELSE Confidence(as),
     articleCount |-> Len(as)]

\* score(articles): the SentimentScore of one symbol.
score(as) ==
    IF as = <<>>
    THEN [value |-> 5, confidence |-> 0, articleCount |-> 0]
    ELSE [value |-> SumFused(as) \div Len(as),
          confidence |-> Confidence(as),
          articleCount |-> Len(as)]

\* The scorer is handed a window of articles.
ScorerInit ==
    /\ PageInit
    /\ DisplayIdle
    /\ RuleIdle
    /\ \E n \in 0..MaxArticles : articles \in [1..n -> ScoredArticles]
    /\ sentimentScore = NotRendered
    /\ HistoryIdle
    /\ requestLimit = MaxRequests

\* The cycle scores the window.
ScoreArticles ==
    /\ sentimentScore = NotRendered
    /\ sentimentScore' = <<score(articles)>>
    /\ UNCHANGED <<pageVars, displayVars, ruleVars, articles, historyVars,
                   requestLimit>>

\* ---------------------------------------- Alert Evaluator: score history

\* The sentiment values the cycles record, in tenths.
RecordedValues == {2, 5, 8}

\* An insert that never evicts.
InsertKeepingAll(h, entry) == Append(h, entry)

\* Insert into the ring buffer: a full buffer loses its oldest entry.
Insert(h, entry) ==
    IF Len(h) >= HistoryCapacity
    THEN Append(Tail(h), entry)
    ELSE Append(h, entry)

\* A cycle records the symbol's score, newest last.
RecordScore(v) ==
    /\ cycles < MaxCycles
    /\ cycles' = cycles + 1
    /\ history' = Insert(history, [cycle |-> cycles + 1, value |-> v])
    /\ UNCHANGED <<pageVars, displayVars, ruleVars, scorerVars, requestLimit>>

\* ------------------------------------------------ Alert Evaluator: rules

\* One symbol with inputs of every sentiment value and confidence.
RuleInit ==
    /\ PageInit
    /\ DisplayIdle
    /\ \E v \in 0..MaxTenths, c \in 0..MaxTenths, p \in PriceChanges :
            ruleInput = [Quiet EXCEPT !.value = v, !.confidence = c,
                                      !.priceChange = p]
    /\ ruleOutput = NotRendered
    /\ ScorerIdle
    /\ HistoryIdle
    /\ requestLimit = MaxRequests

\* One cycle for the symbol on an empty alert table: steps 1 to 4.
EvaluateRules ==
    /\ ruleOutput = NotRendered
    /\ ruleOutput' =
            <<ActiveOutput(EvaluateSymbol([tbl |-> {}, nid |-> 1],
                                          "AAPL", ruleInput, 1).tbl)>>
    /\ UNCHANGED <<pageVars, displayVars, ruleInput, scorerVars, historyVars,
                   requestLimit>>

\* ---------------------------------------------------- Dashboard: display

\* getSentimentColor(sentiment), sentiment in tenths.
getSentimentColor(sentiment) ==
    IF sentiment > 6 THEN "text-green-600"
    ELSE IF sentiment < 4 THEN "text-red-600"
    ELSE "text-yellow-600"

\* getSentimentLabel(sentiment), sentiment in tenths.
getSentimentLabel(sentiment) ==
    IF sentiment > 7 THEN "Very Positive"
    ELSE IF sentiment > 6 THEN "Positive"
    ELSE IF sentiment > 4 THEN "Neutral"
    ELSE IF sentiment > 3 THEN "Negative"
    ELSE "Very Negative"

\* The symbols handed to the display: two NSE listings, a BSE listing and a
\* US listing.
DisplaySymbols == {"TCS.NS", "INFY.NS", "TCS.BO", "AAPL"}

\* The characters of a symbol.
SymbolText(sym) ==
    CASE sym = "TCS.NS" -> <<"T", "C", "S", ".", "N", "S">>
      [] sym = "INFY.NS" -> <<"I", "N", "F", "Y", ".", "N", "S">>
      [] sym = "TCS.BO" -> <<"T", "C", "S", ".", "B", "O">>
      [] OTHER -> <<"A", "A", "P", "L">>

\* String.prototype.endsWith.
endsWith(text, suffix) ==
    /\ Len(text) >= Len(suffix)
    /\ SubSeq(text, Len(text) - Len(suffix) + 1, Len(text)) = suffix

DotNS == <<".", "N", "S">>

DotBO == <<".", "B", "O">>

\* toLocaleString('en-IN', { maximumFractionDigits: 2 }): thousandths to the
\* nearest hundredth, halves upwards.
toLocaleString(thousandths) == (thousandths + 5) \div 10

\* formatCurrency(amount, symbol): the rupees shown, in hundredths.
formatCurrency(amt, sym) ==
    IF endsWith(SymbolText(sym), DotNS)
    THEN toLocaleString(amt)
    ELSE LET inrAmount == amt * 83
         IN  toLocaleString(inrAmount)

\* chartData: the price of one historical point, in thousandths.
chartData(close, sym) ==
    IF endsWith(SymbolText(sym), DotNS) THEN close ELSE close * 83

\* A price is handed to the display.
DisplayInit ==
    /\ PageInit
    /\ amount \in 0..MaxAmount
    /\ priceSymbol \in DisplaySymbols
    /\ cardPrice = NotRendered
    /\ chartPrice = NotRendered
    /\ overallSentiment \in 0..MaxTenths
    /\ badge = NotRendered
    /\ RuleIdle
    /\ ScorerIdle
    /\ HistoryIdle
    /\ requestLimit = MaxRequests

\* The Overview tab renders the price card.
RenderPriceCard ==
    /\ cardPrice = NotRendered
    /\ cardPrice' = <<formatCurrency(amount, priceSymbol)>>
    /\ UNCHANGED <<pageVars, amount, priceSymbol, chartPrice, overallSentiment, badge,
                   ruleVars, scorerVars, historyVars,
                   requestLimit>>

\* The Charts tab renders the chart.
RenderChart ==
    /\ chartPrice = NotRendered
    /\ chartPrice' = <<chartData(amount, priceSymbol)>>
    /\ UNCHANGED <<pageVars, amount, priceSymbol, cardPrice, overallSentiment, badge,
                   ruleVars, scorerVars, historyVars,
                   requestLimit>>

\* The card renders the sentiment: the label, in the colour class.
RenderSentiment ==
    /\ badge = NotRendered
    /\ badge' = <<[color |-> getSentimentColor(overallSentiment),
                   label |-> getSentimentLabel(overallSentiment)]>>
    /\ UNCHANGED <<pageVars, amount, priceSymbol, cardPrice, chartPrice,
                   overallSentiment,
                   ruleVars, scorerVars, historyVars,
                   requestLimit>>

\* --------------------------------------------------------- specifications

\* The data path: selection, both components' requests, the evaluator
\* cycles they trigger, and the panel's filter.  Home's Refresh button and
\* market-status poll and the response to /api/popular-stocks write only
\* isLoading, lastUpdated, refreshTimer, marketStatus, statusPending,
\* popularStocks, selectorLoading and popularPending, which no action below
\* reads.
Next ==
    \/ Mount
    \/ \E sym \in Symbols : handleAddStock(sym)
    \/ \E sym \in Symbols : handleRemoveStock(sym)
    \/ \E sym \in Symbols, signal \in SignalMenu : MarketMove(sym, signal)
    \/ \E r \in dashRequests, outcome \in Outcomes : DashboardResponse(r, outcome)
    \/ \E r \in alertRequests, outcome \in Outcomes : AlertsResponse(r, outcome)
    \/ \E f \in Filters : SetFilter(f)

Spec == Init /\ [][Next]_vars

\* The page: what starts a request.  The user's actions, the two timers of
\* Home, and the responses; upstream data stays as it is.
PageNext ==
    \/ Mount
    \/ \E sym \in Symbols : handleAddStock(sym)
    \/ \E sym \in Symbols : handleRemoveStock(sym)
    \/ handleRefreshData
    \/ RefreshTimeout
    \/ MarketStatusTick
    \/ \E ok \in BOOLEAN : MarketStatusResponse(ok)
    \/ \E outcome \in Outcomes : PopularStocksResponse(outcome)
    \/ \E r \in dashRequests, outcome \in Outcomes : DashboardResponse(r, outcome)
    \/ \E r \in alertRequests, outcome \in Outcomes : AlertsResponse(r, outcome)

PageSpec == Init /\ [][PageNext]_vars

\* Timers fire and requests end; the user may stop acting at any time.
PageFairness ==
    /\ WF_vars(Mount)
    /\ WF_vars(RefreshTimeout)
    /\ WF_vars(MarketStatusTick)
    /\ WF_vars(\E ok \in BOOLEAN : MarketStatusResponse(ok))
    /\ WF_vars(\E outcome \in Outcomes : PopularStocksResponse(outcome))
    /\ WF_vars(\E r \in dashRequests, outcome \in Outcomes : DashboardResponse(r, outcome))
    /\ WF_vars(\E r \in alertRequests, outcome \in Outcomes : AlertsResponse(r, outcome))

FairPageSpec == PageSpec /\ PageFairness

\* The display of one price on the card and on the chart.
DisplayNext ==
    \/ RenderPriceCard
    \/ RenderChart
    \/ RenderSentiment

DisplaySpec == DisplayInit /\ [][DisplayNext]_vars

\* One evaluation cycle on inputs of every value.
RuleNext == EvaluateRules

RuleSpec == RuleInit /\ [][RuleNext]_vars

\* One scoring of a window of articles.
ScorerNext == ScoreArticles

ScorerSpec == ScorerInit /\ [][ScorerNext]_vars

\* The cycles of one symbol, each recording its score.
HistoryNext == \E v \in RecordedValues : RecordScore(v)

HistorySpec == Init /\ [][HistoryNext]_vars

\* The selection under the user's edits alone: no response arrives.
SelectionInit ==
    /\ PageInit
    /\ SideIdle
    /\ requestLimit = MaxSelectionRequests

SelectionNext ==
    \/ Mount
    \/ \E sym \in ListedSymbols : handleAddStock(sym)
    \/ \E sym \in ListedSymbols : handleRemoveStock(sym)

SelectionSpec == SelectionInit /\ [][SelectionNext]_vars

\* ------------------------------------------------------------- properties

\* The requests whose response the step handles.
ServedRequests ==
    (dashRequests \ dashRequests') \cup (alertRequests \ alertRequests')

\* The positions of the panel's list that hold an active alert of the pair.
ActiveInList(sym, kind) ==
    {i \in DOMAIN alerts :
        alerts[i].symbol = sym /\ alerts[i].kind = kind /\ alerts[i].isActive}

\* C1: in every reachable state the evaluator's table and the list held by
\* AlertPanel each contain at most one active alert per (symbol, kind).
OneActivePerPair ==
    \A sym \in Symbols, kind \in Kinds :
        /\ Cardinality(ActiveFor(alertTable, sym, kind)) <= 1
        /\ Cardinality(ActiveInList(sym, kind)) <= 1

\* C1 happens: after two cycles the panel lists several alerts, one of them
\* for a pair that is active in the table.
OneActivePerPairSeen ==
    /\ now >= 2
    /\ Len(alerts) >= 2
    /\ \E sym \in Symbols, kind \in Kinds :
        /\ Cardinality(ActiveFor(alertTable, sym, kind)) = 1
        /\ Cardinality(ActiveInList(sym, kind)) = 1

\* C2: a cycle in which a rule fires for a pair that already has an active
\* alert creates no record: the alert keeps its id, takes the candidate's
\* severity and currentValue and the cycle's time, and stays the only active
\* record of the pair.
RefireUpdatesInPlace ==
    [][now' # now =>
        \A r \in ServedRequests : \A a \in alertTable :
            LET cands == Candidates(a.symbol, market[a.symbol])
                hits == {k \in DOMAIN cands : cands[k].kind = a.kind}
            IN  (/\ a.isActive
                 /\ a.symbol \in Fetched(r)
                 /\ hits # {})
                => /\ ActiveFor(alertTable', a.symbol, a.kind) =
                        {[a EXCEPT !.severity = cands[k].severity,
                                   !.currentValue = cands[k].currentValue,
                                   !.triggeredAt = now'] : k \in hits}
                   /\ {b.id : b \in {x \in alertTable' :
                                x.symbol = a.symbol /\ x.kind = a.kind}}
                      = {b.id : b \in {x \in alertTable :
                                x.symbol = a.symbol /\ x.kind = a.kind}}
    ]_vars

\* C2 happens: the panel still lists an alert as an earlier cycle triggered
\* it, and the table holds the same id, active, triggered by a later cycle.
RefireSeen ==
    \E i \in DOMAIN alerts : \E a \in alertTable :
        /\ a.id = alerts[i].id
        /\ a.isActive
        /\ a.triggeredAt > alerts[i].triggeredAt

\* C3: once no request is in flight, AlertPanel lists no alert of a pair
\* that the evaluator has retired.
RetiredNotShown ==
    (mounted /\ dashRequests = {} /\ alertRequests = {})
    => \A i \in DOMAIN alerts :
          \E a \in alertTable : a.id = alerts[i].id /\ a.isActive

\* C4: under every filter the displayed list has all high before all medium
\* before all low and, within one severity, triggeredAt descending.
DisplayOrdered ==
    \A f \in Filters :
        \A i, j \in DOMAIN FilteredBy(f) :
            i < j =>
                LET x == FilteredBy(f)[i]
                    y == FilteredBy(f)[j]
                IN  /\ SeverityRank(x.severity) <= SeverityRank(y.severity)
                    /\ x.severity = y.severity => x.triggeredAt >= y.triggeredAt

\* C4 happens: the panel shows a filtered list of alerts triggered at
\* different times, and holds alerts of different severities.
DisplayOrderedSeen ==
    /\ ~alertsLoading
    /\ filter # "all"
    /\ \E i, j \in DOMAIN filteredAlerts :
            filteredAlerts[i].triggeredAt # filteredAlerts[j].triggeredAt
    /\ \E i, j \in DOMAIN alerts : alerts[i].severity # alerts[j].severity

\* C5: at most one /api/dashboard request is in flight at any time.
OneCycleInFlight == Cardinality(dashRequests \cup alertRequests) <= 1

\* C6: a press of Refresh with symbols selected is eventually followed by a
\* new /api/dashboard request, unless the selection is emptied first.
RefreshStartsFetch ==
    \A n \in 1..(MaxRequests + 1) :
        (isLoading /\ selectedStocks # <<>> /\ nextRequest = n)
            ~> (nextRequest > n \/ selectedStocks = <<>>)

\* C7: while symbols stay selected, a new /api/dashboard request always
\* eventually starts, whether or not the user acts.
TimerStartsCycles ==
    \A n \in 1..(MaxRequests - 1) :
        (mounted /\ selectedStocks # <<>> /\ nextRequest = n)
            ~> (nextRequest > n \/ selectedStocks = <<>>)

\* C8: when Dashboard installs the response of a cycle, every selected symbol
\* the cycle had data for shows its card on the Overview and Sentiment tabs,
\* and only the symbols without data show a placeholder.
SymbolScoped ==
    [][\A r \in dashRequests \ dashRequests' :
          now' # now =>
              \A s \in Range(selectedStocks) :
                  IF s \in Fetched(r)
                  THEN /\ (OverviewCard(s))' = "card"
                       /\ (SentimentCard(s))' = "card"
                       /\ stockData'[s] = now'
                  ELSE /\ (OverviewCard(s))' = "placeholder"
                       /\ (SentimentCard(s))' = "placeholder"
    ]_vars

\* C8 happens: of two selected symbols the one without upstream data shows
\* a placeholder and the other its card.
SymbolScopedSeen ==
    /\ ~dashLoading
    /\ \E s, t \in Range(selectedStocks) :
        /\ OverviewCard(s) = "card"
        /\ OverviewCard(t) = "placeholder"
        /\ ~market[t].avail

\* C9: when a request of Dashboard fails, stockData and sentimentData stay
\* as they are and every card that still shows them is marked stale.
FailedFetchMarkedStale ==
    [][\A r \in dashRequests \ dashRequests' :
          now' = now =>
              /\ stockData' = stockData
              /\ sentimentData' = sentimentData
              /\ DashboardView' = "tabs" =>
                    \A s \in Range(selectedStocks) \cap DOMAIN stockData :
                        (OverviewCard(s))' = "stale"
    ]_vars

\* C10: a change of the filter leaves the alert list as it is, and the list
\* changes only by becoming the snapshot of a handled response or by being
\* cleared when the selection becomes empty.
AlertsReadOnly ==
    [][/\ filter' # filter => alerts' = alerts
       /\ alerts' # alerts =>
            \/ /\ selectedStocks # <<>>
               /\ selectedStocks' = <<>>
               /\ alerts' = <<>>
            \/ \E r \in alertRequests \ alertRequests' :
                    /\ now' # now
                    /\ alerts' = ActiveOutput(alertTable')
    ]_vars

\* C10 happens: a severity filter is set that hides some of the alerts held.
AlertsReadOnlySeen ==
    /\ filter # "all"
    /\ Len(alerts) >= 2
    /\ Len(filteredAlerts) < Len(alerts)

\* The exchange a symbol is listed on, by its suffix.
ListedInIndia(sym) ==
    \/ endsWith(SymbolText(sym), DotNS)
    \/ endsWith(SymbolText(sym), DotBO)

\* C11: the card shows a symbol listed on NSE or BSE at its amount and any
\* other symbol at 83 times its amount, and the chart plots the amount the
\* card shows.
CurrencyByExchange ==
    /\ cardPrice # NotRendered =>
            cardPrice[1] = IF ListedInIndia(priceSymbol)
                           THEN toLocaleString(amount)
                           ELSE toLocaleString(amount * 83)
    /\ (cardPrice # NotRendered /\ chartPrice # NotRendered) =>
            toLocaleString(chartPrice[1]) = cardPrice[1]

\* The alerts of the given kind in the output of the cycle.
OutputOfKind(kind) ==
    {ruleOutput[1][k] : k \in {j \in DOMAIN ruleOutput[1] : ruleOutput[1][j].kind = kind}}

\* C12: the cycle's output has a sentiment alert exactly when confidence is
\* at least 0.3 and the value is at most 0.3 or at least 0.8; its severity
\* is high when the value is at most 0.2 or at least 0.9 and medium otherwise.
SentimentRule ==
    ruleOutput # NotRendered =>
        /\ OutputOfKind("sentiment") # {}
            <=> /\ ruleInput.confidence >= 3
                /\ ruleInput.value <= 3 \/ ruleInput.value >= 8
        /\ \A a \in OutputOfKind("sentiment") :
                /\ a.symbol = "AAPL"
                /\ a.isActive
                /\ a.severity = IF ruleInput.value <= 2 \/ ruleInput.value >= 9
                                THEN "high" ELSE "medium"

\* C12 happens: the rule fires at severity medium on the thresholds themselves,
\* value 0.8 with confidence 0.3.
SentimentRuleSeen ==
    /\ ruleOutput # NotRendered
    /\ ruleInput.value = 8
    /\ ruleInput.confidence = 3
    /\ \E a \in OutputOfKind("sentiment") : a.severity = "medium"

\* C13: a score of no articles has value 0.5 and confidence 0, and the
\* Dashboard presents it as neutral.
NoArticlesNeutral ==
    (sentimentScore # NotRendered /\ sentimentScore[1].articleCount = 0) =>
        /\ sentimentScore[1].value = 5
        /\ sentimentScore[1].confidence = 0
        /\ getSentimentLabel(sentimentScore[1].value) = "Neutral"
        /\ getSentimentColor(sentimentScore[1].value) = "text-yellow-600"

\* C13 happens: a window without articles has been scored.
NoArticlesNeutralSeen ==
    /\ articles = <<>>
    /\ sentimentScore # NotRendered
    /\ sentimentScore[1].articleCount = 0

\* C14: the history never holds more than its capacity, and it holds the
\* scores of the most recent cycles, oldest first and newest last.
HistoryBounded ==
    /\ Len(history) <= HistoryCapacity
    /\ Len(history) = IF cycles < HistoryCapacity THEN cycles ELSE HistoryCapacity
    /\ \A i \in DOMAIN history :
            history[i].cycle = cycles - Len(history) + i

\* C14 happens: a score was inserted into a full history.
HistoryBoundedSeen ==
    /\ Len(history) = HistoryCapacity
    /\ cycles > HistoryCapacity
    /\ history[1].cycle > 1

\* C15: every alert the panel holds has one of the three severities; the
\* three counts add up to the total, which is the length of the list; every
\* alert is listed under exactly one severity filter; and every filter lists
\* as many alerts as its tab says.
SeverityCounts ==
    /\ \A i \in DOMAIN alerts : alerts[i].severity \in Severities
    /\ alertCounts.high + alertCounts.medium + alertCounts.low = alertCounts.total
    /\ alertCounts.total = Len(alerts)
    /\ \A i \in DOMAIN alerts :
            Cardinality({f \in Severities : alerts[i] \in Range(FilteredBy(f))}) = 1
    /\ \A f \in Filters : Len(FilteredBy(f)) = TabCount(f)

\* C15 happens: the panel holds alerts of all three severities and shows
\* one severity's tab.
SeverityCountsSeen ==
    /\ ~alertsLoading
    /\ filter # "all"
    /\ alertCounts.high >= 1
    /\ alertCounts.medium >= 1
    /\ alertCounts.low >= 1

\* C16: once StockSelector has finished loading, popularStocks is set: to
\* the server's list, or to the fallback list when the request failed.
PopularStocksInstalled ==
    (mounted /\ ~selectorLoading) => popularStocks # Null

\* What the list area of the panel shows.
PanelView ==
    IF alertsLoading THEN "skeleton"
    ELSE IF Len(filteredAlerts) = 0
         THEN IF Len(selectedStocks) = 0 THEN "select stocks" ELSE "normal"
         ELSE "list"

\* C17: while no symbol is selected the panel holds no alert and shows
\* 'Select stocks to start monitoring for alerts'.
EmptySelectionNoAlerts ==
    (mounted /\ selectedStocks = <<>>) =>
        /\ alerts = <<>>
        /\ PanelView = "select stocks"

\* C18: the colour class of a rendered sentiment is green exactly when its
\* label is Positive or Very Positive, red exactly when it is Negative or
\* Very Negative, and yellow exactly when it is Neutral; 0.5 is Neutral and
\* yellow.
ColourMatchesLabel ==
    badge # NotRendered =>
        /\ badge[1].color = "text-green-600"
            <=> badge[1].label \in {"Positive", "Very Positive"}
        /\ badge[1].color = "text-red-600"
            <=> badge[1].label \in {"Negative", "Very Negative"}
        /\ badge[1].color = "text-yellow-600" <=> badge[1].label = "Neutral"
        /\ overallSentiment = 5 =>
                badge[1] = [color |-> "text-yellow-600", label |-> "Neutral"]

NoDuplicates(list) ==
    \A i, j \in DOMAIN list : list[i] = list[j] => i = j

\* The position of a selected symbol.
PositionIn(list, sym) == CHOOSE i \in DOMAIN list : list[i] = sym

\* C19: the selection never holds a symbol twice; it changes only by a
\* symbol that was not selected being appended at the end, or by a selected
\* symbol being deleted with the others keeping their order; and removing a
\* symbol just added gives the list back.
SelectionEdits ==
    [][/\ NoDuplicates(selectedStocks)
       /\ NoDuplicates(selectedStocks')
       /\ selectedStocks' # selectedStocks =>
            \/ \E sym \in ListedSymbols \ Range(selectedStocks) :
                    /\ Len(selectedStocks') = Len(selectedStocks) + 1
                    /\ selectedStocks'[Len(selectedStocks')] = sym
                    /\ SubSeq(selectedStocks', 1, Len(selectedStocks)) = selectedStocks
                    /\ Without(selectedStocks', sym) = selectedStocks
            \/ \E sym \in Range(selectedStocks) :
                    /\ Range(selectedStocks') = Range(selectedStocks) \ {sym}
                    /\ Len(selectedStocks') = Len(selectedStocks) - 1
                    /\ \A a, b \in Range(selectedStocks') :
                            PositionIn(selectedStocks', a) < PositionIn(selectedStocks', b)
                            <=> PositionIn(selectedStocks, a) < PositionIn(selectedStocks, b)
    ]_vars

\* C19 happens: two symbols were added, the first of three removed, and it
\* was added again at the end.
SelectionEditsSeen ==
    /\ Len(selectedStocks) = 3
    /\ selectedStocks[3] = InitialSelection[1]
    /\ NoDuplicates(selectedStocks)

\* The step installs the body of the 200 response to a request that was made
\* for another selection than the current one, and no request made for the
\* current selection is left in flight to replace it.
StaleInstalled(requests, requestsAfter) ==
    \E r \in requests \ requestsAfter :
        /\ now' # now
        /\ r.symbols # selectedStocks
        /\ \A q \in requestsAfter : q.symbols # selectedStocks

\* C20: with symbols selected, neither Dashboard nor AlertPanel ends up with
\* the response to a request made for an earlier selection: such a response
\* is installed only while the request for the current selection is still
\* in flight.
LatestSelectionWins ==
    [][selectedStocks # <<>> =>
          /\ ~StaleInstalled(dashRequests, dashRequests')
          /\ ~StaleInstalled(alertRequests, alertRequests')
    ]_vars

\* C21: Dashboard's loading flag is true while one of its requests is in
\* flight, and so is AlertPanel's.
LoadingWhileInFlight ==
    /\ dashRequests # {} => dashLoading
    /\ alertRequests # {} => alertsLoading

\* The step handles the 200 response to a request of Dashboard.
DashboardFetchSucceeded ==
    \E r \in dashRequests \ dashRequests' : now' # now

\* C22: lastUpdated changes only in a step that completes a dashboard fetch
\* successfully, and every such step changes it.
LastUpdatedTracksData ==
    [][/\ lastUpdated' # lastUpdated => DashboardFetchSucceeded
       /\ DashboardFetchSucceeded => lastUpdated' # lastUpdated
    ]_vars

====
